---- MODULE Spec2Model ----
(***************************************************************************)
(* TinyLink backend (src/backend/README.md, lines 21-194: the Express      *)
(* server) over the table of src/backend/sql/init.sql.                     *)
(*                                                                         *)
(* The server is a single-threaded event loop: a handler runs until its    *)
(* next `await pool.query(...)`, the database executes that statement      *)
(* atomically, and the handler continues.  One action of the model is one  *)
(* statement executed by the database together with the handler code that  *)
(* follows it up to the next statement (or the response).  Requests in     *)
(* flight are the entries of `reqs`; the table is `links`.                 *)
(*                                                                         *)
(* Strings that the code inspects character by character (codes, paths)    *)
(* are sequences of one-character strings.                                 *)
(***************************************************************************)
EXTENDS Integers, Sequences, FiniteSets, TLC

(* ------------------------------ bounds -------------------------------- *)

\* Requests that may be in flight at once.
NumReqs == 2
\* Outcomes of the random generator that are explored (prefix of RandomDraws).
NumDraws == 1
\* Clicks a link may collect.
MaxClicks == 2
\* Ticks of the database clock.
MaxTime == 2

(* ------------------------- program constants -------------------------- *)

\* CODE_REGEX = /^[A-Za-z0-9]{6,8}$/
MinCodeLen == 6
MaxCodeLen == 8
\* genCode: length = 6 + Math.floor(Math.random() * 3)
GenBaseLen == 6
GenLenChoices == 3
\* if (attempts > 10) break;
MaxAttempts == 10

\* SQL NULL of last_clicked_time (timestamps are the positive clock values).
NULL == 0 - 1

CHARS ==
  << "A","B","C","D","E","F","G","H","I","J","K","L","M",
     "N","O","P","Q","R","S","T","U","V","W","X","Y","Z",
     "a","b","c","d","e","f","g","h","i","j","k","l","m",
     "n","o","p","q","r","s","t","u","v","w","x","y","z",
     "0","1","2","3","4","5","6","7","8","9" >>

\* The character class [A-Za-z0-9] of CODE_REGEX.
UpperCase == {"A","B","C","D","E","F","G","H","I","J","K","L","M",
              "N","O","P","Q","R","S","T","U","V","W","X","Y","Z"}
LowerCase == {"a","b","c","d","e","f","g","h","i","j","k","l","m",
              "n","o","p","q","r","s","t","u","v","w","x","y","z"}
Digits == {"0","1","2","3","4","5","6","7","8","9"}
CodeRegexClass == UpperCase \cup LowerCase \cup Digits

\* Variant of CodeRegexTest: the pattern without its anchors ^ and $.
CodeRegexUnanchored(s) ==
  \E i \in 1..Len(s) :
    /\ i + MinCodeLen - 1 <= Len(s)
    /\ \A k \in i..(i + MinCodeLen - 1) : s[k] \in CodeRegexClass

\* CODE_REGEX.test(s): the whole string is 6 to 8 characters of the class.
CodeRegexTest(s) ==
  /\ Len(s) >= MinCodeLen
  /\ Len(s) <= MaxCodeLen
  /\ \A i \in 1..Len(s) : s[i] \in CodeRegexClass

\* BASE_URL, the default of line 32 with PORT 3001.
BASE_URL == <<"http://localhost:3001">>

(* --------------------------- random generator ------------------------- *)

\* Math.random() returns x / RandomScale for an integer 0 <= x < RandomScale
\* (a scale that both 3 and CHARS.length divide).
RandomScale == 186

\* randInt(n) = Math.floor(Math.random() * n), for the outcome x / RandomScale.
randInt(x, n) == (x * n) \div RandomScale

\* Outcomes of the calls of Math.random() in one genCode(): `len` for the
\* length, idx[i] for the i-th character.  The explored outcomes spell
\* "healthz", "health", "AAAAAAAA", "zzzzzz9".
RandomDraws ==
  << [len |-> 62,  idx |-> <<99, 90, 78, 111, 135, 99, 153, 0>>],
     [len |-> 0,   idx |-> <<99, 90, 78, 111, 135, 99, 153, 0>>],
     [len |-> 124, idx |-> <<0, 0, 0, 0, 0, 0, 0, 0>>],
     [len |-> 62,  idx |-> <<153, 153, 153, 153, 153, 153, 183, 0>>] >>

Draws == {RandomDraws[i] : i \in 1..NumDraws}

\* genCode(): length = 6 + floor(random * 3) characters, each
\* CHARS[randInt(CHARS.length)].
genCode(d) ==
  LET length == GenBaseLen + randInt(d.len, GenLenChoices)
  IN [i \in 1..length |-> CHARS[randInt(d.idx[i], Len(CHARS)) + 1]]

GenCodes == {genCode(d) : d \in Draws}

(* ------------------------------ requests ------------------------------ *)

\* req.body.customCode: absent (undefined) or a string.
NoCustomCode == [present |-> FALSE, val |-> <<>>]
CustomCode(s) == [present |-> TRUE, val |-> s]

\* JavaScript truthiness of customCode: undefined and "" are falsy.
Truthy(c) == c.present /\ c.val # <<>>

\* Express route matching for a one-segment GET path, in registration
\* order: app.get('/health') comes before app.get('/:short_code').
HEALTH_ROUTE == <<"h","e","a","l","t","h">>
Route(path) == IF path = HEALTH_ROUTE THEN "health" ELSE "redirect"

\* Codes used as customCode, as the :short_code parameter and as the path of
\* GET /<path>: the codes the generator can produce and the word "health".
PathCodes == GenCodes \cup {HEALTH_ROUTE}

Body(longUrl, customCode) == [longUrl |-> longUrl, customCode |-> customCode]

TooShort == <<"a","b","c","1","2">>
NotAlnum == <<"a","b","c","-","1","2">>
TooLong == <<"a","b","c","d","e","f","g","h","i">>

\* Request bodies of POST /api/links a client sends.  longUrl is missing
\* (""), not a URL, or one of two absolute URLs; customCode is absent, the
\* empty string, too short, not alphanumeric, too long, or a well-formed code.
CreateBodies ==
  {Body("", NoCustomCode),
   Body("not-a-url", NoCustomCode),
   Body("not-a-url", CustomCode(TooShort)),
   Body("https://example.com/page", NoCustomCode),
   Body("HTTPS://EXAMPLE.COM", CustomCode(<<>>)),
   Body("https://example.com/page", CustomCode(TooShort)),
   Body("https://example.com/page", CustomCode(NotAlnum)),
   Body("HTTPS://EXAMPLE.COM", CustomCode(TooLong))}
  \cup {Body("", CustomCode(c)) : c \in PathCodes}
  \cup {Body("not-a-url", CustomCode(c)) : c \in PathCodes}
  \cup {Body("https://example.com/page", CustomCode(c)) : c \in PathCodes}
  \cup {Body("HTTPS://EXAMPLE.COM", CustomCode(c)) : c \in PathCodes}

\* new URL(longUrl): whether the WHATWG parser accepts the string.
UrlParses(longUrl) ==
  longUrl \in {"HTTPS://EXAMPLE.COM", "https://example.com/page"}

\* new URL(longUrl).toString(): scheme and host lower-cased, empty path "/".
UrlToString(longUrl) ==
  CASE longUrl = "HTTPS://EXAMPLE.COM" -> "https://example.com/"
    [] longUrl = "https://example.com/page" -> "https://example.com/page"
    [] OTHER -> ""

(* ------------------------- decimal conversion ------------------------- *)

DigitChars == <<"0","1","2","3","4","5","6","7","8","9">>

\* The text of COUNT(*) as pg returns it (a bigint comes back as a string).
RECURSIVE CountText(_)
CountText(n) ==
  IF n < 10 THEN <<DigitChars[n + 1]>>
  ELSE Append(CountText(n \div 10), DigitChars[(n % 10) + 1])

DigitValue(ch) == CHOOSE v \in 0..9 : DigitChars[v + 1] = ch

\* parseInt(text) of a decimal digit string.
RECURSIVE parseInt(_)
parseInt(s) ==
  IF Len(s) = 0 THEN 0
  ELSE 10 * parseInt(SubSeq(s, 1, Len(s) - 1)) + DigitValue(s[Len(s)])

(* -------------------------------- state -------------------------------- *)

VARIABLES
  links,           \* the table: a sequence of rows in insertion order
  reqs,            \* reqs[r]: the request handled in slot r and its position
  now,             \* the database clock, the value of now()
  served,          \* served[c]: 302 responses for c since the stored link c was created
  lastRedirectAt   \* lastRedirectAt[c]: clock value at the latest of those responses

vars == <<links, reqs, now, served, lastRedirectAt>>

Slots == 1..NumReqs

\* A slot that holds no request.  The fields are the request (op, body,
\* short_code), the handler's locals (normalizedUrl, attempts, longUrl), the
\* error thrown by the store (err) and the response (status, message, rows,
\* shortUrl, location, total_links).  `seen` records the click count the row
\* had when the redirect's SELECT ran (the application never reads it).
IdleReq ==
  [op |-> "none", pc |-> "idle",
   body |-> Body("", NoCustomCode),
   short_code |-> <<>>, normalizedUrl |-> "", attempts |-> 0,
   longUrl |-> "", seen |-> 0,
   err |-> "", status |-> 0, message |-> "",
   rows |-> <<>>, shortUrl |-> <<>>, location |-> "", total_links |-> 0]

NewReq(op) == [IdleReq EXCEPT !.op = op]

\* res.status(status) with an error or plain-text body: the request ends.
Respond(q, status, message) ==
  [q EXCEPT !.pc = "done", !.status = status, !.message = message]

\* A response is exposed in its slot for one state and then leaves (Finish);
\* the event loop handles the next event after that.
Quiet == \A r \in Slots : reqs[r].pc # "done"

\* A new request takes the first idle slot.
Free(r) ==
  /\ Quiet
  /\ reqs[r].pc = "idle"
  /\ \A s \in Slots : s < r => reqs[s].pc # "idle"

\* The request in slot r is at the statement `pc`, which the database runs next.
At(r, pc) == Quiet /\ reqs[r].pc = pc

(* ------------------------------ the store ----------------------------- *)

\* ... FROM links WHERE short_code = $1
RowsOf(tbl, code) == SelectSeq(tbl, LAMBDA row : row.short_code = code)

\* codeExists(short_code): SELECT 1 ... LIMIT 1, rowCount > 0
codeExists(tbl, code) == Len(RowsOf(tbl, code)) > 0

\* Variant of NewRow: the row is stamped with now() when it is inserted.
NewRowStamped(code, url) ==
  [short_code |-> code, target_url |-> url,
   total_clicks |-> 0, last_clicked_time |-> now]

\* The row of INSERT ... VALUES ($1, $2, 0, NULL)
NewRow(code, url) ==
  [short_code |-> code, target_url |-> url,
   total_clicks |-> 0, last_clicked_time |-> NULL]

\* Variant of StoreInsert: the column has no UNIQUE constraint.
StoreInsertNoConstraint(tbl, row) ==
  [ok |-> TRUE, links |-> Append(tbl, row)]

\* Variant of StoreInsert: INSERT ... ON CONFLICT (short_code) DO UPDATE.
StoreUpsert(tbl, row) ==
  IF \E i \in 1..Len(tbl) : tbl[i].short_code = row.short_code
  THEN [ok |-> TRUE,
        links |-> [i \in 1..Len(tbl) |->
                     IF tbl[i].short_code = row.short_code THEN row ELSE tbl[i]]]
  ELSE [ok |-> TRUE, links |-> Append(tbl, row)]

\* INSERT under the UNIQUE constraint on short_code: a duplicate key is
\* rejected (the query throws) and the table is left as it was.
StoreInsert(tbl, row) ==
  IF codeExists(tbl, row.short_code)
  THEN [ok |-> FALSE, links |-> tbl]
  ELSE [ok |-> TRUE, links |-> Append(tbl, row)]

\* Variant of StoreDelete: the WHERE clause is missing.
StoreDeleteAll(tbl, code) == <<>>

\* DELETE FROM links WHERE short_code = $1
StoreDelete(tbl, code) == SelectSeq(tbl, LAMBDA row : row.short_code # code)

\* Variant of StoreClick: last_clicked_time is set by the first click only.
StoreClickFirstTime(tbl, code, t) ==
  [i \in 1..Len(tbl) |->
     IF tbl[i].short_code = code
     THEN [tbl[i] EXCEPT !.total_clicks = @ + 1,
                         !.last_clicked_time = IF @ = NULL THEN t ELSE @]
     ELSE tbl[i]]

\* Variant of StoreClick: the UPDATE has no WHERE clause.
StoreClickAll(tbl, code, t) ==
  [i \in 1..Len(tbl) |->
     [tbl[i] EXCEPT !.total_clicks = @ + 1, !.last_clicked_time = t]]

\* Variant of StoreClick: the UPDATE sets total_clicks only.
StoreClickCountOnly(tbl, code, t) ==
  [i \in 1..Len(tbl) |->
     IF tbl[i].short_code = code
     THEN [tbl[i] EXCEPT !.total_clicks = @ + 1]
     ELSE tbl[i]]

\* UPDATE links SET total_clicks = total_clicks + 1, last_clicked_time = now()
\* WHERE short_code = $1, one statement evaluated on the stored row.
StoreClick(tbl, code, t) ==
  [i \in 1..Len(tbl) |->
     IF tbl[i].short_code = code
     THEN [tbl[i] EXCEPT !.total_clicks = @ + 1, !.last_clicked_time = t]
     ELSE tbl[i]]

StoredCodes == {links[i].short_code : i \in 1..Len(links)}

(* -------------------------------- Init -------------------------------- *)

Init ==
  /\ links = <<>>
  /\ reqs = [r \in Slots |-> IdleReq]
  /\ now = 1
  /\ served = [c \in PathCodes |-> 0]
  /\ lastRedirectAt = [c \in PathCodes |-> NULL]

(* ------------------------- POST /api/links ---------------------------- *)

\* Variant of CreateStart: a well-formed customCode is taken to its existence
\* check before longUrl is looked at.
CreateStartCodeFirst(r, body, d) ==
  /\ Free(r)
  /\ LET q == [NewReq("create") EXCEPT !.body = body]
         longUrl == body.longUrl
         customCode == body.customCode
     IN reqs' = [reqs EXCEPT ![r] =
          IF Truthy(customCode) /\ CodeRegexTest(customCode.val)
          THEN [q EXCEPT !.short_code = customCode.val,
                         !.normalizedUrl = UrlToString(longUrl),
                         !.pc = "exists"]
          ELSE IF Truthy(customCode)
          THEN Respond(q, 400, "customCode must match [A-Za-z0-9]{6,8}")
          ELSE IF longUrl = ""
          THEN Respond(q, 400, "longUrl is required")
          ELSE IF ~UrlParses(longUrl)
          THEN Respond(q, 400, "Invalid URL provided")
          ELSE [q EXCEPT !.normalizedUrl = UrlToString(longUrl),
                         !.short_code = genCode(d),
                         !.attempts = 1,
                         !.pc = "gen"]]
  /\ UNCHANGED <<links, now, served, lastRedirectAt>>

\* Lines 89-112 up to the first await: validation, then either the custom
\* code's existence check or the first generated candidate's is sent.
CreateStart(r, body, d) ==
  /\ Free(r)
  /\ LET q == [NewReq("create") EXCEPT !.body = body]
         longUrl == body.longUrl
         customCode == body.customCode
     IN reqs' = [reqs EXCEPT ![r] =
          IF longUrl = ""
          THEN Respond(q, 400, "longUrl is required")
          ELSE IF ~UrlParses(longUrl)
          THEN Respond(q, 400, "Invalid URL provided")
          ELSE LET u == [q EXCEPT !.normalizedUrl = UrlToString(longUrl)]
               IN IF Truthy(customCode)
                  THEN IF ~CodeRegexTest(customCode.val)
                       THEN Respond(u, 400, "customCode must match [A-Za-z0-9]{6,8}")
                       ELSE [u EXCEPT !.short_code = customCode.val,
                                      !.pc = "exists"]
                  ELSE [u EXCEPT !.short_code = genCode(d),
                                 !.attempts = 1,
                                 !.pc = "gen"]]
  /\ UNCHANGED <<links, now, served, lastRedirectAt>>

\* Variant of CreateExists: the pre-check's result is ignored.
CreateExistsIgnored(r) ==
  /\ At(r, "exists")
  /\ reqs' = [reqs EXCEPT ![r] = [reqs[r] EXCEPT !.pc = "insert"]]
  /\ UNCHANGED <<links, now, served, lastRedirectAt>>

\* Line 104: if (await codeExists(short_code)) return 409
CreateExists(r) ==
  /\ At(r, "exists")
  /\ reqs' = [reqs EXCEPT ![r] =
       IF codeExists(links, reqs[r].short_code)
       THEN Respond(reqs[r], 409, "Code already exists")
       ELSE [reqs[r] EXCEPT !.pc = "insert"]]
  /\ UNCHANGED <<links, now, served, lastRedirectAt>>

\* Lines 108-112: the loop condition `await codeExists(short_code)`; when it
\* is true the body runs again (a new candidate, attempts++, break once
\* attempts > 10), when it is false the loop ends.  Either way the next
\* statement sent is another existence check.
CreateGenLoop(r, d) ==
  /\ At(r, "gen")
  /\ reqs' = [reqs EXCEPT ![r] =
       IF codeExists(links, reqs[r].short_code)
       THEN [reqs[r] EXCEPT !.short_code = genCode(d),
                            !.attempts = @ + 1,
                            !.pc = IF reqs[r].attempts + 1 > MaxAttempts
                                   THEN "gencheck" ELSE "gen"]
       ELSE [reqs[r] EXCEPT !.pc = "gencheck"]]
  /\ UNCHANGED <<links, now, served, lastRedirectAt>>

\* Lines 114-117: the check after the loop.  `attempts` is declared inside the
\* else block and is gone when the block ends.
CreateGenCheck(r) ==
  /\ At(r, "gencheck")
  /\ reqs' = [reqs EXCEPT ![r] =
       IF codeExists(links, reqs[r].short_code)
       THEN Respond(reqs[r], 500, "Failed to generate unique short_code, try again")
       ELSE [reqs[r] EXCEPT !.pc = "insert", !.attempts = 0]]
  /\ UNCHANGED <<links, now, served, lastRedirectAt>>

\* Lines 119-130 and 186-189: the INSERT; on success 201 with the returned
\* row and shortUrl, on a thrown error next(err) and the error handler's 500.
CreateInsert(r) ==
  /\ At(r, "insert")
  /\ LET q == reqs[r]
         row == NewRow(q.short_code, q.normalizedUrl)
         ins == StoreInsert(links, row)
     IN /\ links' = ins.links
        /\ reqs' = [reqs EXCEPT ![r] =
             IF ins.ok
             THEN [q EXCEPT !.pc = "done", !.status = 201,
                            !.rows = <<row>>,
                            !.shortUrl = BASE_URL \o <<"/">> \o row.short_code]
             ELSE Respond([q EXCEPT !.err = "unique_violation"],
                          500, "Internal server error")]
        /\ served' = IF ins.ok THEN [served EXCEPT ![q.short_code] = 0] ELSE served
        /\ lastRedirectAt' = IF ins.ok
                             THEN [lastRedirectAt EXCEPT ![q.short_code] = NULL]
                             ELSE lastRedirectAt
  /\ UNCHANGED now

(* -------------------------- GET /api/links ---------------------------- *)

\* Lines 134-145: SELECT of every row, answered as is.
ListLinks(r) ==
  /\ Free(r)
  /\ reqs' = [reqs EXCEPT ![r] =
       [NewReq("list") EXCEPT !.pc = "done", !.status = 200, !.rows = links]]
  /\ UNCHANGED <<links, now, served, lastRedirectAt>>

(* --------------------- GET /api/links/:short_code --------------------- *)

\* Lines 148-161: SELECT ... WHERE short_code = $1 LIMIT 1; 404 on no row.
GetLink(r, code) ==
  /\ Free(r)
  /\ LET q == [NewReq("get") EXCEPT !.short_code = code]
         found == RowsOf(links, code)
     IN reqs' = [reqs EXCEPT ![r] =
          IF Len(found) = 0
          THEN Respond(q, 404, "Not found")
          ELSE [q EXCEPT !.pc = "done", !.status = 200,
                         !.rows = <<found[1]>>]]
  /\ UNCHANGED <<links, now, served, lastRedirectAt>>

(* -------------------- DELETE /api/links/:short_code ------------------- *)

\* Lines 164-171: DELETE ... RETURNING short_code; 404 on no row, else 204.
DeleteLink(r, code) ==
  /\ Free(r)
  /\ LET q == [NewReq("delete") EXCEPT !.short_code = code]
         deleted == RowsOf(links, code)
     IN /\ links' = StoreDelete(links, code)
        /\ reqs' = [reqs EXCEPT ![r] =
             IF Len(deleted) = 0
             THEN Respond(q, 404, "Not found")
             ELSE [q EXCEPT !.pc = "done", !.status = 204]]
        /\ served' = [served EXCEPT ![code] = 0]
        /\ lastRedirectAt' = [lastRedirectAt EXCEPT ![code] = NULL]
  /\ UNCHANGED now

(* --------------------------- GET /:short_code ------------------------- *)

\* Redirects in flight between their SELECT and their UPDATE.
Updating == {r \in Slots : reqs[r].pc = "update"}

\* Lines 174-179: the request is routed to the redirect handler, whose
\* SELECT target_url ... LIMIT 1 answers 404 'Not found' on no row.
RedirectSelect(r, path) ==
  /\ Free(r)
  /\ Route(path) = "redirect"
  /\ \A i \in 1..Len(links) :
       links[i].total_clicks + Cardinality(Updating) < MaxClicks
  /\ LET q == [NewReq("redirect") EXCEPT !.short_code = path]
         found == RowsOf(links, path)
     IN reqs' = [reqs EXCEPT ![r] =
          IF Len(found) = 0
          THEN Respond(q, 404, "Not found")
          ELSE [q EXCEPT !.pc = "update",
                         !.longUrl = found[1].target_url,
                         !.seen = found[1].total_clicks]]
  /\ UNCHANGED <<links, now, served, lastRedirectAt>>

\* Lines 180-181 with the table the UPDATE leaves: 302 to the URL read by
\* the SELECT, whether or not the UPDATE found a row.
RedirectRespond(r, updated) ==
  /\ At(r, "update")
  /\ LET q == reqs[r]
         hit == codeExists(links, q.short_code)
     IN /\ links' = updated
        /\ reqs' = [reqs EXCEPT ![r] =
             [q EXCEPT !.pc = "done", !.status = 302, !.location = q.longUrl]]
        /\ served' = IF hit THEN [served EXCEPT ![q.short_code] = @ + 1]
                     ELSE served
        /\ lastRedirectAt' = IF hit
                             THEN [lastRedirectAt EXCEPT ![q.short_code] = now]
                             ELSE lastRedirectAt
  /\ UNCHANGED now

\* Variant of RedirectUpdate: the application writes back the count it read,
\* plus one (SET total_clicks = $2).
RedirectUpdateReadModifyWrite(r) ==
  RedirectRespond(r,
    [i \in 1..Len(links) |->
       IF links[i].short_code = reqs[r].short_code
       THEN [links[i] EXCEPT !.total_clicks = reqs[r].seen + 1,
                             !.last_clicked_time = now]
       ELSE links[i]])

\* Variant of RedirectUpdate: res.redirect is called without awaiting the
\* UPDATE, which has not run when the response leaves.
RedirectUpdateNotAwaited(r) == RedirectRespond(r, links)

\* Lines 180-181: the UPDATE, then res.redirect(302, longUrl).
RedirectUpdate(r) ==
  RedirectRespond(r, StoreClick(links, reqs[r].short_code, now))

(* ------------------------------ GET /health --------------------------- *)

\* Lines 41-59: the request is routed to the health handler: SELECT COUNT(*),
\* answered 200 with total_links = parseInt(count).
Health(r, path) ==
  /\ Free(r)
  /\ Route(path) = "health"
  /\ reqs' = [reqs EXCEPT ![r] =
       [NewReq("health") EXCEPT !.pc = "done", !.status = 200,
                                !.short_code = path,
                                !.message = "healthy",
                                !.total_links = parseInt(CountText(Len(links)))]]
  /\ UNCHANGED <<links, now, served, lastRedirectAt>>

(* ----------------------- response sent, clock ------------------------- *)

\* The response has been written; the slot is free again.
Finish(r) ==
  /\ reqs[r].pc = "done"
  /\ reqs' = [reqs EXCEPT ![r] = IdleReq]
  /\ UNCHANGED <<links, now, served, lastRedirectAt>>

Tick ==
  /\ Quiet
  /\ now < MaxTime
  /\ now' = now + 1
  /\ UNCHANGED <<links, reqs, served, lastRedirectAt>>

(* ---------------------------- specification --------------------------- *)

Next ==
  \/ \E r \in Slots, body \in CreateBodies, d \in Draws : CreateStart(r, body, d)
  \/ \E r \in Slots : CreateExists(r)
  \/ \E r \in Slots, d \in Draws : CreateGenLoop(r, d)
  \/ \E r \in Slots : CreateGenCheck(r)
  \/ \E r \in Slots : CreateInsert(r)
  \/ \E r \in Slots : ListLinks(r)
  \/ \E r \in Slots, code \in PathCodes : GetLink(r, code)
  \/ \E r \in Slots, code \in PathCodes : DeleteLink(r, code)
  \/ \E r \in Slots, path \in PathCodes : RedirectSelect(r, path)
  \/ \E r \in Slots : RedirectUpdate(r)
  \/ \E r \in Slots, path \in PathCodes : Health(r, path)
  \/ \E r \in Slots : Finish(r)
  \/ Tick

Spec == Init /\ [][Next]_vars

(* ------------------------------- claims ------------------------------- *)

Done == {r \in Slots : reqs[r].pc = "done"}

\* The request in slot r is a Create that has just been answered.
CreateDone(r) == r \in Done /\ reqs[r].op = "create"

\* Slot r takes a step of a request of kind `op` (a Finish step empties the slot).
StepOf(r, op) == reqs'[r] # reqs[r] /\ reqs'[r].op = op

\* Slot r answers a request of kind `op` in this step.
Answers(r, op) == StepOf(r, op) /\ reqs'[r].pc = "done"

\* C1: concurrent redirects lose no update.  Every stored link's total_clicks
\* equals the number of 302 responses given for its code since it was
\* created, however the SELECTs and UPDATEs of the redirects interleave.
C1_NoLostClicks ==
  \A i \in 1..Len(links) : links[i].total_clicks = served[links[i].short_code]

\* Two redirects of one code overlapped (this one's SELECT saw 0 clicks, the
\* other's UPDATE ran before this one's) and both are counted.
C1_Witness ==
  \E r \in Done, i \in 1..Len(links) :
    /\ reqs[r].op = "redirect"
    /\ reqs[r].status = 302
    /\ reqs[r].seen = 0
    /\ links[i].short_code = reqs[r].short_code
    /\ links[i].total_clicks = 2
    /\ served[reqs[r].short_code] = 2

\* C2: a Create with a custom code whose INSERT the store rejects as a
\* duplicate key (it passed the pre-check, a concurrent Create inserted the
\* code first) is answered 409.
C2_DuplicateKeyIsConflict ==
  \A r \in Slots :
    (CreateDone(r) /\ Truthy(reqs[r].body.customCode)
       /\ reqs[r].err = "unique_violation")
    => reqs[r].status = 409

\* C3: after N redirects of a stored link since its creation, total_clicks
\* is N and last_clicked_time is the clock value of the latest redirect
\* (NULL when N = 0).
C3_ClicksAndTime ==
  \A i \in 1..Len(links) :
    LET c == links[i].short_code
    IN /\ links[i].total_clicks = served[c]
       /\ links[i].last_clicked_time = lastRedirectAt[c]
       /\ (served[c] = 0 <=> links[i].last_clicked_time = NULL)

\* The second of two redirects in sequence (its SELECT saw the first one's
\* click) has been answered at a later clock value than the link's creation.
C3_Witness ==
  \E r \in Done, i \in 1..Len(links) :
    /\ reqs[r].op = "redirect"
    /\ reqs[r].status = 302
    /\ reqs[r].seen = 1
    /\ links[i].short_code = reqs[r].short_code
    /\ links[i].total_clicks = 2
    /\ links[i].last_clicked_time = 2
    /\ now = 2

\* C4: the table holds at most one row per code.
C4_UniqueCodes ==
  \A i, j \in 1..Len(links) :
    links[i].short_code = links[j].short_code => i = j

\* A Create passed its pre-check, lost the race to another Create of the same
\* code, and the store holds that code once.
C4_Witness ==
  \E r \in Slots :
    /\ CreateDone(r)
    /\ reqs[r].err = "unique_violation"
    /\ Len(RowsOf(links, reqs[r].short_code)) = 1

\* C5: a Create with a custom code whose pre-check finds the code stored is
\* answered 409 and leaves the table as it was.
C5_SecondCreateConflicts ==
  [][\A r \in Slots :
       (reqs[r].pc = "exists" /\ reqs[r].short_code \in StoredCodes
          /\ reqs'[r] # reqs[r])
       => (reqs'[r].pc = "done" /\ reqs'[r].status = 409 /\ links' = links)]_vars

\* The second Create supplied another longUrl for a link that has a click;
\* it is answered 409 and the link has its first target and its click.
C5_Witness ==
  \E r \in Slots, i \in 1..Len(links) :
    /\ CreateDone(r)
    /\ reqs[r].status = 409
    /\ links[i].short_code = reqs[r].short_code
    /\ links[i].target_url # reqs[r].normalizedUrl
    /\ links[i].total_clicks = 1
    /\ links[i].last_clicked_time # NULL

\* C6 as stated: a Create with a valid longUrl and a supplied customCode
\* that does not match [A-Za-z0-9]{6,8}, the empty string included, is
\* answered 400.
C6_BadCustomCodeRejected ==
  \A r \in Slots :
    (CreateDone(r) /\ UrlParses(reqs[r].body.longUrl)
       /\ reqs[r].body.customCode.present
       /\ ~CodeRegexTest(reqs[r].body.customCode.val))
    => reqs[r].status = 400

\* The supplied codes that are not empty and do not match the pattern.
MalformedCodes == {TooShort, NotAlnum, TooLong}

\* C6 as amended: a Create with a valid longUrl and a non-empty customCode
\* that does not match [A-Za-z0-9]{6,8} is answered 400 by its first step,
\* which leaves the table as it was.
C6_MalformedCustomCodeRejected ==
  [][\A r \in Slots :
       (StepOf(r, "create")
          /\ reqs'[r].body.longUrl \in {"HTTPS://EXAMPLE.COM", "https://example.com/page"}
          /\ reqs'[r].body.customCode.present
          /\ reqs'[r].body.customCode.val \in MalformedCodes)
       => /\ reqs[r].pc = "idle"
          /\ reqs'[r].pc = "done"
          /\ reqs'[r].status = 400
          /\ links' = links]_vars

\* A Create with a valid longUrl and a malformed customCode has been
\* answered 400 while a link is stored.
C6_Witness ==
  \E r \in Slots :
    /\ CreateDone(r)
    /\ reqs[r].status = 400
    /\ reqs[r].body.longUrl = "https://example.com/page"
    /\ reqs[r].body.customCode.val \in MalformedCodes
    /\ Len(links) = 1

\* A Create with a valid longUrl and no customCode.
GeneratedCreateDone(r) ==
  /\ CreateDone(r)
  /\ UrlParses(reqs[r].body.longUrl)
  /\ ~reqs[r].body.customCode.present

\* The 201 response of slot r: a code of the pattern, a fresh row that is
\* now stored, and shortUrl = BASE_URL + "/" + code.
CreatedAsSpecified(r) ==
  /\ Len(reqs[r].rows) = 1
  /\ CodeRegexTest(reqs[r].rows[1].short_code)
  /\ reqs[r].rows[1].target_url = UrlToString(reqs[r].body.longUrl)
  /\ reqs[r].rows[1].total_clicks = 0
  /\ reqs[r].rows[1].last_clicked_time = NULL
  /\ \E i \in 1..Len(links) : links[i] = reqs[r].rows[1]
  /\ reqs[r].shortUrl = BASE_URL \o <<"/">> \o reqs[r].rows[1].short_code

\* C7 as stated: a Create with a valid longUrl and no customCode is answered
\* 201 with a code of the pattern, zero clicks, no click time and the short
\* URL base + "/" + code.
C7_AlwaysCreated ==
  \A r \in Slots :
    GeneratedCreateDone(r) => (reqs[r].status = 201 /\ CreatedAsSpecified(r))

\* C7 as amended: such a Create is answered 201 or 500; 500 when the
\* candidate the loop ended with exists at the final check or the store
\* rejects the INSERT; a 201 response is as the claim says.
C7_CreatedOrFailed ==
  \A r \in Slots :
    GeneratedCreateDone(r) =>
      /\ reqs[r].status \in {201, 500}
      /\ reqs[r].status = 201 => CreatedAsSpecified(r)
      /\ reqs[r].status = 500 =>
           \/ reqs[r].err = "unique_violation"
           \/ reqs[r].message = "Failed to generate unique short_code, try again"

\* A Create without customCode answered 201 while another link is stored.
C7_Witness ==
  \E r \in Slots :
    /\ GeneratedCreateDone(r)
    /\ reqs[r].status = 201
    /\ Len(links) = 2

\* links with its i-th row removed.
WithoutRow(tbl, i) == SubSeq(tbl, 1, i - 1) \o SubSeq(tbl, i + 1, Len(tbl))

\* C8: a Delete answered 204 removes the row of its code and no other row;
\* a code that is not stored is stored again only by a Create answered 201
\* for it; a Get or a redirect of a code that is not stored is answered 404.
C8_DeletedIsNotFound ==
  [][/\ \A r \in Slots :
          (Answers(r, "delete") /\ reqs'[r].status = 204)
          => /\ reqs'[r].short_code \notin {links'[i].short_code : i \in 1..Len(links')}
             /\ \E i \in 1..Len(links) :
                  /\ links[i].short_code = reqs'[r].short_code
                  /\ links' = WithoutRow(links, i)
     /\ \A c \in PathCodes :
          (c \notin StoredCodes
             /\ c \in {links'[i].short_code : i \in 1..Len(links')})
          => \E r \in Slots :
               /\ Answers(r, "create")
               /\ reqs'[r].status = 201
               /\ reqs'[r].short_code = c
     /\ \A r \in Slots :
          ((StepOf(r, "get") \/ (StepOf(r, "redirect") /\ reqs[r].pc = "idle"))
             /\ reqs'[r].short_code \notin StoredCodes)
          => (reqs'[r].pc = "done" /\ reqs'[r].status = 404)]_vars

\* A Delete has been answered 204 and the other link, which has a click, is
\* still stored.
C8_Witness ==
  \E r \in Done :
    /\ reqs[r].op = "delete"
    /\ reqs[r].status = 204
    /\ Len(links) = 1
    /\ links[1].short_code # reqs[r].short_code
    /\ links[1].total_clicks = 1

\* C9: every step of a Create either leaves the table as it was, and if it
\* answers, answers 400, 409 or 500; or it appends one row of the request's
\* code to the table and answers 201.
C9_CreateAllOrNothing ==
  [][\A r \in Slots :
       StepOf(r, "create") =>
         \/ /\ links' = links
            /\ reqs'[r].pc = "done" => reqs'[r].status \in {400, 409, 500}
         \/ /\ reqs'[r].pc = "done"
            /\ reqs'[r].status = 201
            /\ \E row \in {links'[i] : i \in 1..Len(links')} :
                 /\ row.short_code = reqs'[r].short_code
                 /\ links' = Append(links, row)]_vars

\* A Create has been answered 201 and its row stands behind an older row.
C9_Witness ==
  \E r \in Slots :
    /\ CreateDone(r)
    /\ reqs[r].status = 201
    /\ Len(links) = 2
    /\ links[2] = reqs[r].rows[1]
    /\ links[1].total_clicks = 1

\* The request in slot r was GET /healthz.
HEALTHZ == <<"h","e","a","l","t","h","z">>
GetHealthz(r) ==
  reqs[r].op \in {"health", "redirect"} /\ reqs[r].short_code = HEALTHZ

\* C10: GET /healthz is answered 200 with the number of stored rows.
C10_HealthzAnswersCount ==
  \A r \in Done :
    GetHealthz(r) => (reqs[r].status = 200 /\ reqs[r].total_links = Len(links))

\* The stored row of code c (the first, should there be several).
RowOf(tbl, c) == RowsOf(tbl, c)[1]

CodesOf(tbl) == {tbl[i].short_code : i \in 1..Len(tbl)}

\* C11: the 302 is sent after the UPDATE has been applied.  A Get answered
\* once a 302 has been given for the stored link shows total_clicks
\* incremented and last_clicked_time set.
C11_ClickVisibleAfterRedirect ==
  \A r \in Done :
    (reqs[r].op = "get" /\ reqs[r].status = 200
       /\ served[reqs[r].short_code] > 0)
    => /\ reqs[r].rows[1].total_clicks >= served[reqs[r].short_code]
       /\ reqs[r].rows[1].last_clicked_time # NULL

\* A Get answered after one redirect of the link shows the click.
C11_Witness ==
  \E r \in Done :
    /\ reqs[r].op = "get"
    /\ reqs[r].status = 200
    /\ served[reqs[r].short_code] = 1
    /\ reqs[r].rows[1].total_clicks = 1
    /\ reqs[r].rows[1].last_clicked_time # NULL

\* C12: a Get, a Delete or a redirect of a code that is not stored is
\* answered 404 and leaves the table as it was.
C12_AbsentIsNotFound ==
  [][\A r \in Slots :
       ((StepOf(r, "get") \/ StepOf(r, "delete") \/ StepOf(r, "redirect"))
          /\ reqs[r].pc = "idle"
          /\ reqs'[r].short_code \notin StoredCodes)
       => /\ reqs'[r].pc = "done"
          /\ reqs'[r].status = 404
          /\ links' = links]_vars

\* A Delete of a code that is not stored has been answered 404 and the
\* link of the other code, with its click, is still there.
C12_Witness ==
  \E r \in Done :
    /\ reqs[r].op = "delete"
    /\ reqs[r].status = 404
    /\ Len(links) = 1
    /\ links[1].short_code # reqs[r].short_code
    /\ links[1].total_clicks = 1

\* C13: total_clicks is a non-negative integer in every state, and no step
\* lowers the total_clicks of a link that is stored before and after it.
C13_ClicksNeverDecrease ==
  /\ [](\A i \in 1..Len(links) : links[i].total_clicks \in Nat)
  /\ [][\A c \in CodesOf(links) \cap CodesOf(links') :
          RowOf(links', c).total_clicks >= RowOf(links, c).total_clicks]_vars

\* A link has collected two clicks while another link is stored.
C13_Witness ==
  \E i \in 1..Len(links) :
    /\ links[i].total_clicks = 2
    /\ Len(links) = 2

GENERATION_FAILED == "Failed to generate unique short_code, try again"

\* C14: a Create without customCode generates at most 10 candidate codes
\* (attempts counts the candidates generated so far).
C14_AtMostTenCandidates ==
  \A r \in Slots :
    reqs[r].op = "create" => reqs[r].attempts <= MaxAttempts

\* The fields of a link that no operation may change.
Identity(row) == <<row.short_code, row.target_url>>

\* C15: the code and target_url of a stored link never change; the step that
\* answers a redirect of code c changes nothing but total_clicks and
\* last_clicked_time of link c, and steps of List and Get change nothing.
C15_Frame ==
  [][/\ \A c \in CodesOf(links) \cap CodesOf(links') :
          Identity(RowOf(links', c)) = Identity(RowOf(links, c))
     /\ \A r \in Slots :
          (StepOf(r, "redirect") /\ reqs[r].pc = "update")
          => /\ CodesOf(links') = CodesOf(links)
             /\ Len(links') = Len(links)
             /\ \A c \in CodesOf(links) \ {reqs[r].short_code} :
                  RowOf(links', c) = RowOf(links, c)
     /\ \A r \in Slots :
          (StepOf(r, "list") \/ StepOf(r, "get")) => links' = links
     /\ (\E c \in CodesOf(links) \cap CodesOf(links') :
           RowOf(links', c) # RowOf(links, c))
        => \E r \in Slots : Answers(r, "redirect") /\ reqs'[r].status = 302]_vars

\* A redirect has been answered with its click counted while the other
\* stored link still has no click.
C15_Witness ==
  \E r \in Done :
    /\ reqs[r].op = "redirect"
    /\ reqs[r].status = 302
    /\ Len(links) = 2
    /\ \E i, j \in 1..2 :
         /\ links[i].short_code = reqs[r].short_code
         /\ links[i].total_clicks = 1
         /\ links[j].short_code # reqs[r].short_code
         /\ links[j].total_clicks = 0
         /\ links[j].last_clicked_time = NULL

\* C16: a Create whose longUrl is missing or does not parse is answered 400
\* by the step that receives it, before any statement is sent to the store,
\* whatever its customCode (malformed, or the code of a stored link); a
\* Create answered 400 was never at a statement, and none is answered 409
\* with such a longUrl.
C16_ValidationBeforeStore ==
  [][\A r \in Slots :
       /\ (StepOf(r, "create")
             /\ reqs'[r].body.longUrl \in {"", "not-a-url"})
          => /\ reqs[r].pc = "idle"
             /\ reqs'[r].pc = "done"
             /\ reqs'[r].status = 400
             /\ reqs'[r].message \in {"longUrl is required", "Invalid URL provided"}
             /\ links' = links
       /\ (Answers(r, "create") /\ reqs'[r].status = 400)
          => reqs[r].pc = "idle" /\ links' = links]_vars

\* A Create with an unparsable longUrl and the code of a stored link as
\* customCode has been answered 400.
C16_Witness ==
  \E r \in Slots :
    /\ CreateDone(r)
    /\ reqs[r].status = 400
    /\ reqs[r].message = "Invalid URL provided"
    /\ reqs[r].body.customCode.present
    /\ reqs[r].body.customCode.val \in StoredCodes

\* C17: a Create is answered with the generation failure only after the
\* full bound of candidates has been generated.
C17_FailureOnlyAfterFullBound ==
  \A r \in Done :
    (reqs[r].op = "create" /\ reqs[r].message = GENERATION_FAILED)
    => reqs[r].attempts >= MaxAttempts

\* C18: every 302 to target T is matched by one click counted on a stored
\* link of the requested code whose target_url is T: the step that answers
\* the 302 adds 1 to the total_clicks of such a link.
C18_RedirectCountedOnItsLink ==
  [][\A r \in Slots :
       (Answers(r, "redirect") /\ reqs'[r].status = 302)
       => \E i \in 1..Len(links) :
            /\ links[i].short_code = reqs'[r].short_code
            /\ links[i].target_url = reqs'[r].location
            /\ RowsOf(links', reqs'[r].short_code)
                 = <<[links[i] EXCEPT !.total_clicks = @ + 1,
                                      !.last_clicked_time = now]>>]_vars

\* C19: a GET of the path of a stored code, 'health' included, is answered
\* with a 302 by the redirect handler.
C19_StoredCodeRedirects ==
  \A r \in Done :
    (reqs[r].op \in {"redirect", "health"}
       /\ reqs[r].short_code \in StoredCodes)
    => reqs[r].op = "redirect" /\ reqs[r].status = 302

\* C20: in every state, the last_clicked_time of a stored link is null
\* exactly when its total_clicks is 0.
C20_NullIffNoClicks ==
  \A i \in 1..Len(links) :
    (links[i].last_clicked_time = NULL) <=> (links[i].total_clicks = 0)

\* Two links are stored, one never clicked and one clicked.
C20_Witness ==
  \E i, j \in 1..Len(links) :
    /\ links[i].total_clicks = 0
    /\ links[i].last_clicked_time = NULL
    /\ links[j].total_clicks > 0
    /\ links[j].last_clicked_time # NULL

====
